---- MODULE Spec2Model ----
(***************************************************************************)
(* drf_spectacular/utils.py: the extend_schema decorator (a chain of       *)
(* dynamically created ExtendedSchema subclasses, each closing over the    *)
(* arguments of one extend_schema call), the resolution of an operation    *)
(* through that chain, and the two annotation decorators                   *)
(* extend_schema_field / extend_schema_serializer.                         *)
(*                                                                         *)
(* A schema class is modelled as [base, layers]: `layers` holds one record *)
(* per extend_schema application, first applied first (innermost), last    *)
(* applied last (outermost, the head of the method resolution order);      *)
(* `base` is the class the first ExtendedSchema derives from.  super()     *)
(* from layer i is layer i-1, and from layer 1 the base class.             *)
(***************************************************************************)
EXTENDS Naturals, Sequences, FiniteSets

VARIABLES
  site,     \* the decorated object f: where extend_schema stores the schema
  site0,    \* history: the site before the first extend_schema application
  applied,  \* history: how many extend_schema calls were applied to the site
  self,     \* attributes of the site's schema instance: method, view
  result,   \* the last completed call of get_operation: its context, what it
            \* returned, and whether the instance had served another context
  pc,       \* interleaved resolutions: position of each resolution
  loc,      \* interleaved resolutions: locals of each resolution
  own,      \* per target: its own _spectacular_annotation attribute
  last      \* history: the last annotation decorator application

vars == <<site, site0, applied, self, result, pc, loc, own, last>>

----------------------------------------------------------------------------
(* Bounds of the model *)

MaxLayers == 2

----------------------------------------------------------------------------
(* Values *)

Fields ==
  {"operation_id", "parameters", "request", "responses",
   "auth", "description", "deprecated", "tags"}

Methods == {"GET", "POST"}
Versions == {"v1", "v2"}
VersionFail == "raise"          \* determine_version raises
NoneScope == {"None"}           \* methods=None / versions=None

\* An argument of extend_schema is "none" (left at its default None),
\* "falsy" ('' / [] / {} / False) or "truthy".
NoVals == [f \in Fields |-> "none"]

V(k, n) == [k |-> k, by |-> n]
NoneV == V("none", 0)
RaiseV == V("raise", 0)
\* the value base introspection discovers for any field
BaseV == V("base", 0)

\* The value object a layer holds for an argument of kind k.  Truthy values
\* of different extend_schema calls are different objects; falsy ones are
\* equal ('' == '', [] == [], False == False).
ValueOf(layer, k) ==
  IF k = "truthy" THEN V("truthy", layer.id)
  ELSE IF k = "falsy" THEN V("falsy", 0)
  ELSE NoneV

DefaultSchema == [base |-> "DEFAULT_SCHEMA_CLASS", layers |-> <<>>]
ExplicitSchema == [base |-> "explicit", layers |-> <<>>]
ExplicitKwargs == [base |-> "explicit in kwargs", layers |-> <<>>]
NoSchema == [base |-> "None", layers |-> <<>>]

NoMethod == "unset"
NoView == "unset"
InitSelf == [method |-> NoMethod, view |-> NoView]

----------------------------------------------------------------------------
(* extend_schema arguments *)

\* One extend_schema(...) call: its keyword arguments.  `vals` holds the
\* eight field arguments.
Call(ex, op, vals, ms, vs) ==
  [exclude |-> ex, operation |-> op, vals |-> vals, methods |-> ms, versions |-> vs]

Scopes ==
  { <<NoneScope, NoneScope>>, <<{"GET"}, NoneScope>>, <<NoneScope, {"v1"}>> }

\* The override arguments of the calls the model draws from: none (scope
\* only), exclude, a raw operation (truthy, or the falsy {}), tags alone,
\* description alone, the six other fields together, all eight fields falsy.
Some(fs, k) == [f \in Fields |-> IF f \in fs THEN k ELSE "none"]

Contents ==
  {<<FALSE, "none", NoVals>>, <<TRUE, "none", NoVals>>,
   <<FALSE, "truthy", NoVals>>, <<FALSE, "falsy", NoVals>>,
   <<FALSE, "none", Some({"tags"}, "truthy")>>,
   <<FALSE, "none", Some({"description"}, "truthy")>>,
   <<FALSE, "none", Some(Fields \ {"tags", "description"}, "truthy")>>,
   <<FALSE, "none", Some(Fields, "falsy")>>}

Calls ==
  { Call(c[1], c[2], c[3], s[1], s[2]) : c \in Contents, s \in Scopes }

\* the closure an ExtendedSchema class is created in; `id` numbers the
\* application (the identity of the values it holds)
Layer(call, n) ==
  [exclude |-> call.exclude, operation |-> call.operation, vals |-> call.vals,
   methods |-> call.methods, versions |-> call.versions, id |-> n]

----------------------------------------------------------------------------
(* Resolution: is_in_scope and the methods of ExtendedSchema *)

\* is_in_scope with `or` for `and` in its last line
is_in_scope_either(layer, slf) ==
  IF slf.view = VersionFail THEN "raise"
  ELSE LET version == slf.view
           version_scope == layer.versions = NoneScope \/ version \in layer.versions
           method_scope == layer.methods = NoneScope \/ slf.method \in layer.methods
       IN IF method_scope \/ version_scope THEN "yes" ELSE "no"

\* lines 106-113.  determine_version is called first; when it raises, the
\* exception leaves is_in_scope.
is_in_scope(layer, slf) ==
  IF slf.view = VersionFail THEN "raise"
  ELSE LET version == slf.view
           version_scope == layer.versions = NoneScope \/ version \in layer.versions
           method_scope == layer.methods = NoneScope \/ slf.method \in layer.methods
       IN IF method_scope /\ version_scope THEN "yes" ELSE "no"

\* `if <cond> and is_in_scope(self): return <value>` / `return super()...`
\* (is_in_scope is only evaluated when cond is true)
Override(cond, layer, value, slf, inner) ==
  IF cond
    THEN LET s == is_in_scope(layer, slf)
         IN IF s = "raise" THEN RaiseV
            ELSE IF s = "yes" THEN value ELSE inner
    ELSE inner

RECURSIVE get_operation_id(_, _, _)
get_operation_id(cls, i, slf) ==
  IF i = 0 THEN BaseV
  ELSE LET l == cls.layers[i]
           operation_id == l.vals["operation_id"]
       IN Override(operation_id = "truthy", l, ValueOf(l, operation_id), slf,
                   get_operation_id(cls, i - 1, slf))

RECURSIVE get_override_parameters(_, _, _)
get_override_parameters(cls, i, slf) ==
  IF i = 0 THEN BaseV
  ELSE LET l == cls.layers[i]
           parameters == l.vals["parameters"]
       IN Override(parameters = "truthy", l, ValueOf(l, parameters), slf,
                   get_override_parameters(cls, i - 1, slf))

RECURSIVE get_auth(_, _, _)
get_auth(cls, i, slf) ==
  IF i = 0 THEN BaseV
  ELSE LET l == cls.layers[i]
           auth == l.vals["auth"]
       IN Override(auth = "truthy", l, ValueOf(l, auth), slf,
                   get_auth(cls, i - 1, slf))

RECURSIVE get_request_serializer(_, _, _)
get_request_serializer(cls, i, slf) ==
  IF i = 0 THEN BaseV
  ELSE LET l == cls.layers[i]
           request == l.vals["request"]
       IN Override(request = "truthy", l, ValueOf(l, request), slf,
                   get_request_serializer(cls, i - 1, slf))

RECURSIVE get_response_serializers(_, _, _)
get_response_serializers(cls, i, slf) ==
  IF i = 0 THEN BaseV
  ELSE LET l == cls.layers[i]
           responses == l.vals["responses"]
       IN Override(responses = "truthy", l, ValueOf(l, responses), slf,
                   get_response_serializers(cls, i - 1, slf))

RECURSIVE get_description(_, _, _)
get_description(cls, i, slf) ==
  IF i = 0 THEN BaseV
  ELSE LET l == cls.layers[i]
           description == l.vals["description"]
       IN Override(description = "truthy", l, ValueOf(l, description), slf,
                   get_description(cls, i - 1, slf))

RECURSIVE is_deprecated(_, _, _)
is_deprecated(cls, i, slf) ==
  IF i = 0 THEN BaseV
  ELSE LET l == cls.layers[i]
           deprecated == l.vals["deprecated"]
       IN Override(deprecated = "truthy", l, ValueOf(l, deprecated), slf,
                   is_deprecated(cls, i - 1, slf))

\* tags is the one argument tested with `is not None`
RECURSIVE get_tags(_, _, _)
get_tags(cls, i, slf) ==
  IF i = 0 THEN BaseV
  ELSE LET l == cls.layers[i]
           tags == l.vals["tags"]
       IN Override(tags # "none", l, ValueOf(l, tags), slf,
                   get_tags(cls, i - 1, slf))

\* self.<getter>() for the field f, looked up from class level i
Getter(f, cls, i, slf) ==
  CASE f = "operation_id" -> get_operation_id(cls, i, slf)
    [] f = "parameters" -> get_override_parameters(cls, i, slf)
    [] f = "auth" -> get_auth(cls, i, slf)
    [] f = "request" -> get_request_serializer(cls, i, slf)
    [] f = "responses" -> get_response_serializers(cls, i, slf)
    [] f = "description" -> get_description(cls, i, slf)
    [] f = "deprecated" -> is_deprecated(cls, i, slf)
    [] f = "tags" -> get_tags(cls, i, slf)

\* What get_operation returns (or that it raised)
NoDesc == [f \in Fields |-> NoneV]
Excluded == [k |-> "excluded", op |-> NoneV, desc |-> NoDesc, base |-> FALSE]
Raw(v) == [k |-> "raw", op |-> v, desc |-> NoDesc, base |-> FALSE]
Error(b) == [k |-> "error", op |-> NoneV, desc |-> NoDesc, base |-> b]
Desc(d) == [k |-> "desc", op |-> NoneV, desc |-> d, base |-> TRUE]

\* get_operation of the class the chain ends in (the introspection engine):
\* it records the method and builds the description by calling the getters
\* on self, that is from the head of the chain.
BaseGetOperation(cls, slf, method) ==
  LET s1 == [slf EXCEPT !.method = method]
      d == [f \in Fields |-> Getter(f, cls, Len(cls.layers), s1)]
  IN [self |-> s1,
      ret |-> IF \E f \in Fields : d[f] = RaiseV THEN Error(TRUE) ELSE Desc(d)]

\* get_operation testing `operation` for truth instead of `is not None`
RECURSIVE get_operation_truthy(_, _, _, _)
get_operation_truthy(cls, i, slf, method) ==
  IF i = 0 THEN BaseGetOperation(cls, slf, method)
  ELSE
    LET l == cls.layers[i]
        s1 == [slf EXCEPT !.method = method]
        exclude == l.exclude
        operation == l.operation
    IN IF exclude /\ is_in_scope(l, s1) = "raise"
         THEN [self |-> s1, ret |-> Error(FALSE)]
       ELSE IF exclude /\ is_in_scope(l, s1) = "yes"
         THEN [self |-> s1, ret |-> Excluded]
       ELSE IF operation = "truthy" /\ is_in_scope(l, s1) = "raise"
         THEN [self |-> s1, ret |-> Error(FALSE)]
       ELSE IF operation = "truthy" /\ is_in_scope(l, s1) = "yes"
         THEN [self |-> s1, ret |-> Raw(ValueOf(l, operation))]
       ELSE get_operation_truthy(cls, i - 1, s1, method)

\* get_operation without `self.method = method`
RECURSIVE get_operation_no_store(_, _, _, _)
get_operation_no_store(cls, i, slf, method) ==
  IF i = 0 THEN BaseGetOperation(cls, slf, method)
  ELSE
    LET l == cls.layers[i]
        exclude == l.exclude
        operation == l.operation
    IN IF exclude /\ is_in_scope(l, slf) = "raise"
         THEN [self |-> slf, ret |-> Error(FALSE)]
       ELSE IF exclude /\ is_in_scope(l, slf) = "yes"
         THEN [self |-> slf, ret |-> Excluded]
       ELSE IF operation # "none" /\ is_in_scope(l, slf) = "raise"
         THEN [self |-> slf, ret |-> Error(FALSE)]
       ELSE IF operation # "none" /\ is_in_scope(l, slf) = "yes"
         THEN [self |-> slf, ret |-> Raw(ValueOf(l, operation))]
       ELSE get_operation_no_store(cls, i - 1, slf, method)

\* lines 116-123, from class level i (super() is level i - 1)
RECURSIVE get_operation(_, _, _, _)
get_operation(cls, i, slf, method) ==
  IF i = 0 THEN BaseGetOperation(cls, slf, method)
  ELSE
    LET l == cls.layers[i]
        s1 == [slf EXCEPT !.method = method]
        exclude == l.exclude
        operation == l.operation
    IN IF exclude /\ is_in_scope(l, s1) = "raise"
         THEN [self |-> s1, ret |-> Error(FALSE)]
       ELSE IF exclude /\ is_in_scope(l, s1) = "yes"
         THEN [self |-> s1, ret |-> Excluded]
       ELSE IF operation # "none" /\ is_in_scope(l, s1) = "raise"
         THEN [self |-> s1, ret |-> Error(FALSE)]
       ELSE IF operation # "none" /\ is_in_scope(l, s1) = "yes"
         THEN [self |-> s1, ret |-> Raw(ValueOf(l, operation))]
       ELSE get_operation(cls, i - 1, s1, method)

----------------------------------------------------------------------------
(* The decorator: where the schema is looked up and where it is stored *)

\* lines 92-104: the first of f.schema, f.kwargs['schema'],
\* f.cls.kwargs['schema'] that is set (and truthy), else the default class;
\* an instance found there stands for its class (line 104)
BaseSchema(f) ==
  IF f.schema # NoSchema THEN f.schema
  ELSE IF f.has_kwargs /\ f.kwargs_schema # NoSchema THEN f.kwargs_schema
  ELSE IF f.kind = "api_view" /\ f.cls_kwargs_schema # NoSchema
    THEN f.cls_kwargs_schema
  ELSE DefaultSchema

\* line 115: class ExtendedSchema(BaseSchema), closing over the call
ExtendedSchema(f, call, n) ==
  LET B == BaseSchema(f)
  IN [base |-> B.base, layers |-> Append(B.layers, Layer(call, n))]

\* lines 165-188: what the decorator returns / leaves behind
Attach(f, ext) ==
  IF f.kind = "class"
    THEN [f EXCEPT !.schema = ext]
  ELSE IF f.kind = "api_view"
    THEN [f EXCEPT !.cls_kwargs_schema = ext, !.handler_kwargs_schema = ext]
  ELSE IF f.kind = "callable"
    THEN [f EXCEPT !.has_kwargs = TRUE, !.kwargs_schema = ext]
  ELSE f

\* the schema the framework reads from the site
ChainHead(f) ==
  IF f.kind = "class" THEN f.schema
  ELSE IF f.kind = "api_view" THEN f.cls_kwargs_schema
  ELSE IF f.kind = "callable" THEN f.kwargs_schema
  ELSE NoSchema

\* the schema class the resolutions of the site run on
HeadSchema == ChainHead(site)

Site(kind, schema, has_kwargs, kwargs_schema) ==
  [kind |-> kind, schema |-> schema, has_kwargs |-> has_kwargs,
   kwargs_schema |-> kwargs_schema, cls_kwargs_schema |-> NoSchema,
   handler_kwargs_schema |-> NoSchema]

NoResult ==
  [method |-> "none", version |-> "none", stale |-> FALSE, ret |-> Error(FALSE)]
\* the locals of a resolution that has not begun
IdleLoc ==
  [method |-> "none", version |-> "none", i |-> 0, n |-> 0,
   desc |-> NoDesc, ret |-> Error(FALSE)]

NoOwn == [present |-> FALSE, field |-> "absent", many |-> "absent"]
NoLast == [target |-> "none", key |-> "none"]
Targets == {"Parent", "Child", "Other"}
Procs == {1, 2}

\* extend_schema(**call)(site)
decorator(call) ==
  /\ applied < MaxLayers
  /\ site' = Attach(site, ExtendedSchema(site, call, applied + 1))
  /\ applied' = applied + 1
  /\ self' = InitSelf
  /\ result' = NoResult
  /\ UNCHANGED <<site0, pc, loc, own, last>>

\* One operation of the generation pass: the view of the operation is bound
\* to the schema instance and get_operation is called with its method.
Resolve(m, v) ==
  /\ Len(ChainHead(site).layers) >= 1
  /\ LET cls == ChainHead(site)
         r == get_operation(cls, Len(cls.layers), [self EXCEPT !.view = v], m)
     IN /\ self' = r.self
        /\ result' = [method |-> m, version |-> v, ret |-> r.ret,
                      stale |-> self # InitSelf /\ (self.method # m \/ self.view # v)]
  /\ UNCHANGED <<site, site0, applied, pc, loc, own, last>>

Init ==
  /\ site = Site("class", NoSchema, FALSE, NoSchema)
  /\ site0 = site
  /\ applied = 0
  /\ self = InitSelf
  /\ result = NoResult
  /\ pc = [p \in Procs |-> "idle"]
  /\ loc = [p \in Procs |-> IdleLoc]
  /\ own = [t \in Targets |-> NoOwn]
  /\ last = NoLast

Next ==
  \/ \E call \in Calls : decorator(call)
  \/ \E m \in Methods, v \in Versions \cup {VersionFail} : Resolve(m, v)

Spec == Init /\ [][Next]_vars

----------------------------------------------------------------------------
(* Claims about one resolution at a time (Spec) *)

Resolved == result # NoResult
HasVersion == result.version \in Versions

\* the scope predicate of the specification: method in methods (or all)
\* and version in versions (or all)
Matches(l, m, v) ==
  /\ l.methods = NoneScope \/ m \in l.methods
  /\ l.versions = NoneScope \/ v \in l.versions

InScopeNow(l) == Matches(l, result.method, result.version)

\* the layers of the head that match the context of the last resolution
ScopedIdx == { i \in 1..Len(HeadSchema.layers) : InScopeNow(HeadSchema.layers[i]) }
Declares(i, f) == HeadSchema.layers[i].vals[f] # "none"
Declared(i, f) == ValueOf(HeadSchema.layers[i], HeadSchema.layers[i].vals[f])
Outermost(S) == CHOOSE i \in S : \A j \in S : j <= i

\* a fresh schema instance of the same chain, bound to the view of context v
Fresh(v) == [InitSelf EXCEPT !.view = v]
Alone(cls, m, v) == get_operation(cls, Len(cls.layers), Fresh(v), m).ret

\* C1 (as claimed): whenever some layer in scope was declared with
\* exclude=True, get_operation returns the excluded marker, wherever that
\* layer stands in the chain and whatever the other layers declare.
C1_ExclusionAbsolute ==
  (Resolved /\ HasVersion /\ \E i \in ScopedIdx : HeadSchema.layers[i].exclude)
    => result.ret = Excluded

\* C3 (as claimed): for every field, when two layers in scope both declare
\* a value (truthy or falsy) for it, the resolved value is the one declared
\* by the outer of the two (the outermost declaring layer in scope).
C3_LastDeclaredWins ==
  (Resolved /\ HasVersion /\ result.ret.k = "desc") =>
    \A f \in Fields :
      LET D == { i \in ScopedIdx : Declares(i, f) }
      IN Cardinality(D) >= 2 => result.ret.desc[f] = Declared(Outermost(D), f)

\* C4 (as claimed): when determine_version fails, resolving through a chain
\* of at least one layer ends in an error, never in a description, a raw
\* operation or the excluded marker.
C4_VersionFailureIsError ==
  (Resolved /\ result.version = VersionFail /\ Len(HeadSchema.layers) >= 1)
    => result.ret.k = "error"

\* C5: a layer whose scope does not match the context contributes nothing:
\* the resolution returns what it returns for the chain without the layers
\* out of scope.  With A (methods={GET}, tags) outside B (unscoped,
\* description), POST takes tags from base introspection and the
\* description from B.
Strip(cls, m, v) ==
  [cls EXCEPT !.layers = SelectSeq(cls.layers, LAMBDA l : Matches(l, m, v))]

ScenarioA(l) ==
  /\ l.methods = {"GET"} /\ l.versions = NoneScope
  /\ l.vals = Some({"tags"}, "truthy") /\ ~l.exclude /\ l.operation = "none"

ScenarioB(l) ==
  /\ l.methods = NoneScope /\ l.versions = NoneScope
  /\ l.vals = Some({"description"}, "truthy") /\ ~l.exclude /\ l.operation = "none"

Scenario ==
  /\ Resolved /\ HasVersion /\ result.method = "POST"
  /\ Len(HeadSchema.layers) = 2
  /\ ScenarioB(HeadSchema.layers[1]) /\ ScenarioA(HeadSchema.layers[2])

C5_StrictScoping ==
  /\ (Resolved /\ HasVersion) =>
       result.ret = Alone(Strip(HeadSchema, result.method, result.version),
                          result.method, result.version)
  /\ Scenario =>
       /\ result.ret.k = "desc"
       /\ result.ret.desc["tags"] = BaseV
       /\ result.ret.desc["description"] = Declared(1, "description")

\* C5 witness: a resolved chain holding layers out of scope that declare an
\* exclusion, a raw operation and fields; and the scenario itself.
C5_Witness_OutOfScope ==
  /\ Resolved /\ HasVersion
  /\ \E i \in (1..Len(HeadSchema.layers)) \ ScopedIdx :
       HeadSchema.layers[i].exclude \/ HeadSchema.layers[i].operation # "none"
  /\ \E i \in (1..Len(HeadSchema.layers)) \ ScopedIdx, f \in Fields : Declares(i, f)
  /\ result.ret.k = "desc"

C5_Witness_Scenario == Scenario /\ result.ret.desc["tags"] = BaseV

\* C6: with no exclusion in scope and at least one layer in scope declaring
\* a raw operation (operation is not None), get_operation returns exactly
\* the raw operation of the outermost such layer: the base get_operation
\* is not called and no field override is in what is returned.
RawIdx == { i \in ScopedIdx : HeadSchema.layers[i].operation # "none" }

C6_RawOperationReplaces ==
  (/\ Resolved /\ HasVersion
   /\ ~\E i \in ScopedIdx : HeadSchema.layers[i].exclude
   /\ RawIdx # {})
  => /\ result.ret = Raw(ValueOf(HeadSchema.layers[Outermost(RawIdx)],
                                 HeadSchema.layers[Outermost(RawIdx)].operation))
     /\ ~result.ret.base

\* C6 witness: the raw operation returned is the falsy {} of an outer
\* layer, over an inner layer in scope that declares fields.
C6_Witness ==
  /\ Resolved /\ HasVersion
  /\ ~\E i \in ScopedIdx : HeadSchema.layers[i].exclude
  /\ RawIdx # {}
  /\ HeadSchema.layers[Outermost(RawIdx)].operation = "falsy"
  /\ \E i \in ScopedIdx, f \in Fields : i < Outermost(RawIdx) /\ Declares(i, f)
  /\ result.ret.k = "raw"

\* C7 (as claimed): with no exclusion and no raw operation in scope, a
\* field declared by exactly one layer in scope resolves to that layer's
\* value, and a field declared by no layer in scope to the base value.
C7_FieldsMerge ==
  (Resolved /\ HasVersion /\ result.ret.k = "desc") =>
    \A f \in Fields :
      LET D == { i \in ScopedIdx : Declares(i, f) }
      IN /\ Cardinality(D) = 1 => result.ret.desc[f] = Declared(Outermost(D), f)
         /\ D = {} => result.ret.desc[f] = BaseV

\* C8: what a resolution returns depends only on the chain and the context,
\* not on the resolutions the schema instance served before: it is what a
\* fresh instance of the same chain returns for that context.
C8_HistoryIndependent ==
  Resolved => result.ret = Alone(HeadSchema, result.method, result.version)

\* C8 witness: a resolution on an instance that had just served another
\* context, through a layer scoped by method that decides the result.
C8_Witness ==
  /\ Resolved /\ result.stale /\ HasVersion
  /\ result.ret = Excluded
  /\ \E i \in ScopedIdx :
       HeadSchema.layers[i].exclude /\ HeadSchema.layers[i].methods # NoneScope

----------------------------------------------------------------------------
(* Interleaved resolutions on one schema instance (SpecConc)               *)
(*                                                                         *)
(* The decorated view class holds a single ExtendedSchema() instance       *)
(* (line 167); every resolution of an operation of that view runs on it:   *)
(* `self.method = method` (line 117) and the view it is bound to are       *)
(* attributes of that one object.  Each resolution p is cut into its       *)
(* reads and writes of these attributes.                                   *)

\* the order in which the base get_operation calls the getters
FieldOrder ==
  <<"operation_id", "description", "parameters", "tags",
    "request", "auth", "deprecated", "responses">>

\* the calls the decorated sites of SpecConc were built from
ConcCalls ==
  { c \in Calls :
      /\ c.versions = NoneScope
      /\ \/ c.exclude
         \/ c.operation = "truthy"
         \/ c.vals = Some({"tags"}, "truthy") }

\* a view class decorated with the calls of cs, in order
RECURSIVE Decorated(_, _, _)
Decorated(f, cs, n) ==
  IF n > Len(cs) THEN f
  ELSE Decorated(Attach(f, ExtendedSchema(f, cs[n], n)), cs, n + 1)

ConcSites ==
  { Decorated(Site("class", NoSchema, FALSE, NoSchema), cs, 1) :
      cs \in {<<c>> : c \in ConcCalls} \cup (ConcCalls \X ConcCalls) }

\* the generation pass takes up an operation: view.schema binds the view
\* (and with it the version its determine_version gives) to the instance,
\* then get_operation(path, path_regex, method, registry) is entered
Begin(p, m, v) ==
  /\ pc[p] = "idle"
  /\ self' = [self EXCEPT !.view = v]
  /\ loc' = [loc EXCEPT ![p] = [IdleLoc EXCEPT !.method = m, !.version = v,
                                  !.i = Len(HeadSchema.layers)]]
  /\ pc' = [pc EXCEPT ![p] = "store"]
  /\ UNCHANGED <<site, site0, applied, result, own, last>>

\* line 117 at class level loc[p].i; at level 0 the same assignment in the
\* base get_operation
StoreMethod(p) ==
  /\ pc[p] = "store"
  /\ self' = [self EXCEPT !.method = loc[p].method]
  /\ pc' = [pc EXCEPT ![p] = IF loc[p].i = 0 THEN "fields" ELSE "check"]
  /\ loc' = [loc EXCEPT ![p].n = 1]
  /\ UNCHANGED <<site, site0, applied, result, own, last>>

\* lines 119-123 at class level loc[p].i
CheckLayer(p) ==
  /\ pc[p] = "check"
  /\ LET l == HeadSchema.layers[loc[p].i]
         hit(c) == c /\ is_in_scope(l, self) = "yes"
         err(c) == c /\ is_in_scope(l, self) = "raise"
         ret == IF err(l.exclude) THEN Error(FALSE)
                ELSE IF hit(l.exclude) THEN Excluded
                ELSE IF err(l.operation # "none") THEN Error(FALSE)
                ELSE Raw(ValueOf(l, l.operation))
         returns == err(l.exclude) \/ hit(l.exclude)
                    \/ err(l.operation # "none") \/ hit(l.operation # "none")
     IN IF returns
          THEN /\ loc' = [loc EXCEPT ![p].ret = ret]
               /\ pc' = [pc EXCEPT ![p] = "done"]
          ELSE /\ loc' = [loc EXCEPT ![p].i = loc[p].i - 1]
               /\ pc' = [pc EXCEPT ![p] = "store"]
  /\ UNCHANGED <<site, site0, applied, self, result, own, last>>

\* the base get_operation calls the next getter on self
CallGetter(p) ==
  /\ pc[p] = "fields"
  /\ LET f == FieldOrder[loc[p].n]
         x == Getter(f, HeadSchema, Len(HeadSchema.layers), self)
         d == [loc[p].desc EXCEPT ![f] = x]
     IN IF x = RaiseV
          THEN /\ loc' = [loc EXCEPT ![p].ret = Error(TRUE)]
               /\ pc' = [pc EXCEPT ![p] = "done"]
          ELSE IF loc[p].n = Len(FieldOrder)
            THEN /\ loc' = [loc EXCEPT ![p].desc = d, ![p].ret = Desc(d)]
                 /\ pc' = [pc EXCEPT ![p] = "done"]
          ELSE /\ loc' = [loc EXCEPT ![p].desc = d, ![p].n = loc[p].n + 1]
               /\ pc' = pc
  /\ UNCHANGED <<site, site0, applied, self, result, own, last>>

InitConc ==
  /\ site \in ConcSites
  /\ site0 = Site("class", NoSchema, FALSE, NoSchema)
  /\ applied = Len(ChainHead(site).layers)
  /\ self = InitSelf
  /\ result = NoResult
  /\ pc = [p \in Procs |-> "idle"]
  /\ loc = [p \in Procs |-> IdleLoc]
  /\ own = [t \in Targets |-> NoOwn]
  /\ last = NoLast

NextConc ==
  \/ \E p \in Procs, m \in Methods, v \in Versions : Begin(p, m, v)
  \/ \E p \in Procs : StoreMethod(p)
  \/ \E p \in Procs : CheckLayer(p)
  \/ \E p \in Procs : CallGetter(p)

SpecConc == InitConc /\ [][NextConc]_vars

\* C2 (as claimed): every resolution that ran interleaved with others on
\* the same schema instance returns what it returns when run alone.
C2_InterleavedAsAlone ==
  \A p \in Procs :
    pc[p] = "done" => loc[p].ret = Alone(HeadSchema, loc[p].method, loc[p].version)

----------------------------------------------------------------------------
(* Stacking on the three kinds of site (SpecAttach) *)

\* The sites extend_schema is applied to: a view class (with or without a
\* schema of its own), the function @api_view returns (it carries `cls`
\* and no schema attribute of its own), a plain callable: undecorated,
\* with a schema attribute set by hand, with the kwargs of @action (holding
\* a schema or not); and an object that is neither a class nor callable.
AttachSites ==
  { Site("class", sch, FALSE, NoSchema) : sch \in {NoSchema, ExplicitSchema} }
  \cup { Site("api_view", NoSchema, FALSE, NoSchema) }
  \cup { Site("callable", sch, FALSE, NoSchema) : sch \in {NoSchema, ExplicitSchema} }
  \cup { Site("callable", sch, TRUE, kw) :
           sch \in {NoSchema, ExplicitSchema}, kw \in {NoSchema, ExplicitKwargs} }
  \cup { Site("other", NoSchema, FALSE, NoSchema) }

InitAttach ==
  /\ site \in AttachSites
  /\ site0 = site
  /\ applied = 0
  /\ self = InitSelf
  /\ result = NoResult
  /\ pc = [p \in Procs |-> "idle"]
  /\ loc = [p \in Procs |-> IdleLoc]
  /\ own = [t \in Targets |-> NoOwn]
  /\ last = NoLast

NextAttach == \E call \in Calls : decorator(call)

SpecAttach == InitAttach /\ [][NextAttach]_vars

\* the schemas set explicitly at a site, or the default class if none is
Present(f) ==
  LET E == ({f.schema} \cup (IF f.has_kwargs THEN {f.kwargs_schema} ELSE {}))
             \ {NoSchema}
  IN IF E = {} THEN {DefaultSchema.base} ELSE { e.base : e \in E }

\* C9 (as claimed): on a view class, an @api_view function and a plain
\* callable alike, after k >= 1 applications the site holds a chain of
\* exactly the k layers applied, in application order, over the schema that
\* was there before; a plain callable has its kwargs store.
C9_StackingKeepsEveryLayer ==
  (site.kind \in {"class", "api_view", "callable"} /\ applied >= 1) =>
    /\ Len(HeadSchema.layers) = applied
    /\ \A i \in 1..Len(HeadSchema.layers) : HeadSchema.layers[i].id = i
    /\ HeadSchema.base \in Present(site0)
    /\ site.kind = "callable" => site.has_kwargs

----------------------------------------------------------------------------
(* extend_schema_field and extend_schema_serializer (SpecAnnot)            *)
(*                                                                         *)
(* own[t] is the _spectacular_annotation attribute set on t itself.        *)
(* Attribute lookup on a class goes on to its base classes: Child is a     *)
(* subclass of Parent, Other is unrelated.                                 *)

Supers(t) == IF t = "Child" THEN <<"Child", "Parent">> ELSE <<t>>

\* hasattr(t, '_spectacular_annotation')
HasAnnotation(t) == \E i \in 1..Len(Supers(t)) : own[Supers(t)[i]].present

\* the class whose attribute t._spectacular_annotation evaluates to
Holder(t) ==
  Supers(t)[CHOOSE i \in 1..Len(Supers(t)) :
              /\ own[Supers(t)[i]].present
              /\ \A j \in 1..(i - 1) : ~own[Supers(t)[j]].present]

FieldArgs == {"SerializerA", "OpenApiTypeB"}
ManyArgs == {"None", "True", "False"}

\* lines 206-210
extend_schema_field(f, field) ==
  /\ LET created == IF HasAnnotation(f) THEN own
                    ELSE [own EXCEPT ![f] = [NoOwn EXCEPT !.present = TRUE]]
         h == IF HasAnnotation(f) THEN Holder(f) ELSE f
     IN own' = [created EXCEPT ![h].field = field]
  /\ last' = [target |-> f, key |-> "field"]
  /\ UNCHANGED <<site, site0, applied, self, result, pc, loc>>

\* lines 223-228
extend_schema_serializer(klass, many) ==
  /\ LET created == IF HasAnnotation(klass) THEN own
                    ELSE [own EXCEPT ![klass] = [NoOwn EXCEPT !.present = TRUE]]
         h == IF HasAnnotation(klass) THEN Holder(klass) ELSE klass
     IN own' = IF many # "None" THEN [created EXCEPT ![h].many = many]
               ELSE created
  /\ last' = [target |-> klass, key |-> IF many # "None" THEN "many" ELSE "none"]
  /\ UNCHANGED <<site, site0, applied, self, result, pc, loc>>

NextAnnot ==
  \/ \E t \in Targets, field \in FieldArgs : extend_schema_field(t, field)
  \/ \E t \in Targets, many \in ManyArgs : extend_schema_serializer(t, many)

SpecAnnot == Init /\ [][NextAnnot]_vars

\* C10 (as claimed): applying extend_schema_field or extend_schema_serializer
\* to a target T changes only T's own store, and in it only the key the
\* decorator sets; the store of every other target stays as it was.
C10_OnlyOwnStoreChanges ==
  [][ /\ \A t \in Targets \ {last'.target} : own'[t] = own[t]
      /\ last'.key # "field" => own'[last'.target].field = own[last'.target].field
      /\ last'.key # "many" => own'[last'.target].many = own[last'.target].many
    ]_vars

====
